---- MODULE Spec2Model ----
(***************************************************************************)
(* Model of pennylane_qiskit/ibmq.py: IBMQDevice.__init__.                 *)
(*                                                                         *)
(* One construction is the sequence of steps of the constructor body: the  *)
(* token/url resolution, the account step (enable_account, or the probe    *)
(* for an active account followed by the stored-account loads), the        *)
(* provider step and the call of the parent constructor.  The IBMQ         *)
(* session (which accounts are active) outlives a construction, so a       *)
(* behaviour is a sequence of constructions in one session.                *)
(*                                                                         *)
(* The IBMQ SDK is modelled by the outcomes the constructor distinguishes: *)
(* active_account() is None or not, active_accounts() is empty or not,     *)
(* load_accounts()/load_account() return or raise IBMQAccountError.        *)
(* enable_account() and get_provider() are taken to return, as the         *)
(* constructor's comment "IBM Q account is now enabled" assumes.           *)
(***************************************************************************)
EXTENDS Naturals, Sequences, FiniteSets, TLC

\* ---------------------------------------------------------------- bounds
\* number of constructions in one session
MaxConstructions == 2

\* ---------------------------------------------------------------- values
\* Python's None (also: keyword argument absent, environment variable unset)
None == "<None>"

\* values of the IBMQX_TOKEN environment variable (os.getenv gives None or a str)
EnvTokens == {None, "", "tokA"}
\* values of the ibmqx_token keyword argument
KwTokens == {None, "", "tokB"}
\* values of the IBMQX_URL environment variable
EnvUrls == {None, "", "urlB"}
\* values of the ibmqx_url keyword argument
KwUrls == {None, "", "urlA"}
\* the provider argument: None (the default) or a provider object
Providers == {None, "providerX"}
\* what IBMQ.get_provider() returns
DefaultProvider == "IBMQ.get_provider()"
\* the positional arguments passed through: wires, backend, shots
PassArgs ==
    { [wires |-> "2", backend |-> "ibmq_qasm_simulator", shots |-> "1024"],
      [wires |-> "5", backend |-> "ibmqx2", shots |-> "100"] }

\* truth value of a Python object: None and the empty string are falsy
Truthy(x) == x \notin {None, ""}

\* Python's `a or b`: a when a is truthy, b otherwise
PyOr(a, b) == IF Truthy(a) THEN a ELSE b

\* line 74: token = os.getenv("IBMQX_TOKEN") or kwargs.get("ibmqx_token", None)
ResolveToken(env, kw) == PyOr(env.IBMQX_TOKEN, kw.ibmqx_token)

\* line 75: url = os.getenv("IBMQX_URL") or kwargs.get("ibmqx_url", None)
ResolveUrl(env, kw) == PyOr(env.IBMQX_URL, kw.ibmqx_url)

\* EnableCall with the url keyword dropped
EnableCall_DropsUrl(t, u) == <<"enable_account", t>>

\* line 80-81: the call IBMQ.enable_account(token, **ibmq_kwargs)
EnableCall(t, u) ==
    IF u # None THEN <<"enable_account", t, "url", u>>
                ELSE <<"enable_account", t>>

VARIABLES
    pc,            \* position in the constructor; "idle" between constructions
    environ,       \* os.environ: IBMQX_TOKEN, IBMQX_URL
    kwargs,        \* **kwargs: ibmqx_token, ibmqx_url
    provider,      \* the provider argument
    args,          \* wires, backend, shots
    token,         \* local token
    url,           \* local url
    p,             \* local p
    active_v1,     \* IBMQ.active_accounts() is non-empty
    active_v2,     \* IBMQ.active_account() is not None
    stored_v1,     \* a v1 account is stored on disk: load_accounts() returns
    stored_v2,     \* a v2 account is stored on disk: load_account() returns
    calls,         \* the calls this construction has made, in order
    outcome,       \* how the last construction ended
    superCall,     \* the argument lists the parent constructor received (none or one)
    active0,       \* the active accounts when this construction began
    nConstructions,
    nTokenConstructions,
    nEnableCalls

vars == <<pc, environ, kwargs, provider, args, token, url, p, active_v1,
          active_v2, stored_v1, stored_v2, calls, outcome, superCall, active0,
          nConstructions, nTokenConstructions, nEnableCalls>>

inputs == <<environ, kwargs, provider, args, stored_v1, stored_v2>>
locals == <<token, url, p>>
session == <<active_v1, active_v2>>
counters == <<nConstructions, nTokenConstructions, nEnableCalls>>

Init ==
    /\ pc = "idle"
    /\ environ = [IBMQX_TOKEN |-> None, IBMQX_URL |-> None]
    /\ kwargs = [ibmqx_token |-> None, ibmqx_url |-> None]
    /\ provider = None
    /\ args = [wires |-> "2", backend |-> "ibmq_qasm_simulator", shots |-> "1024"]
    /\ token = None
    /\ url = None
    /\ p = None
    /\ active_v1 \in BOOLEAN
    /\ active_v2 \in BOOLEAN
    /\ stored_v1 = FALSE
    /\ stored_v2 = FALSE
    /\ calls = <<>>
    /\ outcome = "none"
    /\ superCall = {}
    /\ active0 = [v1 |-> active_v1, v2 |-> active_v2]
    /\ nConstructions = 0
    /\ nTokenConstructions = 0
    /\ nEnableCalls = 0

\* lines 73-75: entry of __init__ and the resolution of token and url
Construct ==
    /\ pc = "idle"
    /\ nConstructions < MaxConstructions
    /\ \E et \in EnvTokens, eu \in EnvUrls, kt \in KwTokens, ku \in KwUrls,
          pr \in Providers, a \in PassArgs, s1 \in BOOLEAN, s2 \in BOOLEAN :
        LET env == [IBMQX_TOKEN |-> et, IBMQX_URL |-> eu]
            kw  == [ibmqx_token |-> kt, ibmqx_url |-> ku]
        IN /\ environ' = env
           /\ kwargs' = kw
           /\ provider' = pr
           /\ args' = a
           /\ stored_v1' = s1
           /\ stored_v2' = s2
           /\ token' = ResolveToken(env, kw)
           /\ url' = ResolveUrl(env, kw)
           /\ nTokenConstructions' =
                 IF kt # None \/ Truthy(et) THEN nTokenConstructions + 1
                                            ELSE nTokenConstructions
    /\ p' = None
    /\ calls' = <<>>
    /\ outcome' = "none"
    /\ superCall' = {}
    /\ active0' = [v1 |-> active_v1, v2 |-> active_v2]
    /\ nConstructions' = nConstructions + 1
    /\ pc' = "account"
    /\ UNCHANGED <<session, nEnableCalls>>

\* EnableAccount that skips the call when a v2 account is already active
EnableAccount_SkipsWhenActive ==
    /\ pc = "account"
    /\ token # None
    /\ IF active_v2
         THEN UNCHANGED <<calls, nEnableCalls>>
         ELSE /\ calls' = Append(calls, EnableCall(token, url))
              /\ nEnableCalls' = nEnableCalls + 1
    /\ active_v2' = TRUE
    /\ pc' = "get_provider"
    /\ UNCHANGED <<inputs, locals, active_v1, outcome, superCall, active0,
                   nConstructions, nTokenConstructions>>

\* lines 77-81: a token was provided, enable the account with it
EnableAccount ==
    /\ pc = "account"
    /\ token # None
    /\ calls' = Append(calls, EnableCall(token, url))
    /\ active_v2' = TRUE
    /\ nEnableCalls' = nEnableCalls + 1
    /\ pc' = "get_provider"
    /\ UNCHANGED <<inputs, locals, active_v1, outcome, superCall, active0,
                   nConstructions, nTokenConstructions>>

\* CheckActive with `or` for `and`: loads unless both schemes are active
CheckActive_Or ==
    /\ pc = "account"
    /\ token = None
    /\ IF ~active_v2
         THEN /\ calls' = Append(calls, <<"active_account">>)
              /\ pc' = "load_accounts"
         ELSE /\ calls' = calls \o << <<"active_account">>, <<"active_accounts">> >>
              /\ pc' = IF ~active_v1 THEN "load_accounts" ELSE "get_provider"
    /\ UNCHANGED <<inputs, locals, session, outcome, superCall, active0, counters>>

\* line 96: IBMQ.active_account() is None and not IBMQ.active_accounts()
CheckActive ==
    /\ pc = "account"
    /\ token = None
    /\ IF ~active_v2
         THEN /\ calls' = calls \o << <<"active_account">>, <<"active_accounts">> >>
              /\ pc' = IF ~active_v1 THEN "load_accounts" ELSE "get_provider"
         ELSE /\ calls' = Append(calls, <<"active_account">>)
              /\ pc' = "get_provider"
    /\ UNCHANGED <<inputs, locals, session, outcome, superCall, active0, counters>>

\* LoadAccounts that raises the account error without trying the v2 load
LoadAccounts_NoV2Fallback ==
    /\ pc = "load_accounts"
    /\ calls' = Append(calls, <<"load_accounts">>)
    /\ IF stored_v1
         THEN /\ active_v1' = TRUE
              /\ pc' = "get_provider"
         ELSE /\ active_v1' = active_v1
              /\ pc' = "raise"
    /\ UNCHANGED <<inputs, locals, active_v2, outcome, superCall, active0, counters>>

\* LoadAccounts that goes on to the v2 load whether or not it raised
LoadAccounts_FallsThrough ==
    /\ pc = "load_accounts"
    /\ calls' = Append(calls, <<"load_accounts">>)
    /\ active_v1' = (active_v1 \/ stored_v1)
    /\ pc' = "load_account"
    /\ UNCHANGED <<inputs, locals, active_v2, outcome, superCall, active0, counters>>

\* lines 98-101: attempt to load a v1 account stored on disk
LoadAccounts ==
    /\ pc = "load_accounts"
    /\ calls' = Append(calls, <<"load_accounts">>)
    /\ IF stored_v1
         THEN /\ active_v1' = TRUE
              /\ pc' = "get_provider"
         ELSE /\ active_v1' = active_v1
              /\ pc' = "load_account"
    /\ UNCHANGED <<inputs, locals, active_v2, outcome, superCall, active0, counters>>

\* LoadAccount that swallows the IBMQAccountError
LoadAccount_SwallowsError ==
    /\ pc = "load_account"
    /\ calls' = Append(calls, <<"load_account">>)
    /\ active_v2' = (active_v2 \/ stored_v2)
    /\ pc' = "get_provider"
    /\ UNCHANGED <<inputs, locals, active_v1, outcome, superCall, active0, counters>>

\* lines 102-105: attempt to load a v2 account stored on disk
LoadAccount ==
    /\ pc = "load_account"
    /\ calls' = Append(calls, <<"load_account">>)
    /\ IF stored_v2
         THEN /\ active_v2' = TRUE
              /\ pc' = "get_provider"
         ELSE /\ active_v2' = active_v2
              /\ pc' = "raise"
    /\ UNCHANGED <<inputs, locals, active_v1, outcome, superCall, active0, counters>>

\* lines 108-110: raise IBMQAccountError(...) from None; the constructor ends
RaiseAccountError ==
    /\ pc = "raise"
    /\ calls' = Append(calls, <<"raise IBMQAccountError">>)
    /\ outcome' = "IBMQAccountError"
    /\ pc' = "idle"
    /\ UNCHANGED <<inputs, locals, session, superCall, active0, counters>>

\* GetProvider that asks IBMQ first: p = IBMQ.get_provider() or provider
GetProvider_AsksFirst ==
    /\ pc = "get_provider"
    /\ p' = DefaultProvider
    /\ calls' = Append(calls, <<"get_provider">>)
    /\ pc' = "super"
    /\ UNCHANGED <<inputs, token, url, session, outcome, superCall, active0, counters>>

\* line 115: p = provider or IBMQ.get_provider()
GetProvider ==
    /\ pc = "get_provider"
    /\ IF Truthy(provider)
         THEN /\ p' = provider
              /\ calls' = calls
         ELSE /\ p' = DefaultProvider
              /\ calls' = Append(calls, <<"get_provider">>)
    /\ pc' = "super"
    /\ UNCHANGED <<inputs, token, url, session, outcome, superCall, active0, counters>>

\* SuperInit that forwards the provider argument instead of the local p
SuperInit_ForwardsArgument ==
    /\ pc = "super"
    /\ calls' = Append(calls, <<"super().__init__">>)
    /\ superCall' = {[wires |-> args.wires, provider |-> provider,
                      backend |-> args.backend, shots |-> args.shots,
                      kwargs |-> kwargs]}
    /\ outcome' = "device"
    /\ pc' = "idle"
    /\ UNCHANGED <<inputs, locals, session, active0, counters>>

\* line 117: super().__init__(wires=wires, provider=p, backend=backend,
\*                            shots=shots, **kwargs)
SuperInit ==
    /\ pc = "super"
    /\ calls' = Append(calls, <<"super().__init__">>)
    /\ superCall' = {[wires |-> args.wires, provider |-> p,
                      backend |-> args.backend, shots |-> args.shots,
                      kwargs |-> kwargs]}
    /\ outcome' = "device"
    /\ pc' = "idle"
    /\ UNCHANGED <<inputs, locals, session, active0, counters>>

Next ==
    \/ Construct
    \/ EnableAccount
    \/ CheckActive
    \/ LoadAccounts
    \/ LoadAccount
    \/ RaiseAccountError
    \/ GetProvider
    \/ SuperInit

Spec == Init /\ [][Next]_vars

\* ------------------------------------------------------------ vocabulary
\* a construction has ended (by the parent constructor or by the raise)
Finished == pc = "idle" /\ nConstructions > 0

\* the caller passed ibmqx_token
KwTokenGiven == kwargs.ibmqx_token # None
\* IBMQX_TOKEN is set to a value
EnvTokenGiven == Truthy(environ.IBMQX_TOKEN)
TokenSupplied == KwTokenGiven \/ EnvTokenGiven
SuppliedTokens ==
    (IF KwTokenGiven THEN {kwargs.ibmqx_token} ELSE {})
        \cup (IF EnvTokenGiven THEN {environ.IBMQX_TOKEN} ELSE {})

KwUrlGiven == kwargs.ibmqx_url # None
EnvUrlGiven == Truthy(environ.IBMQX_URL)
UrlSupplied == KwUrlGiven \/ EnvUrlGiven
SuppliedUrls ==
    (IF KwUrlGiven THEN {kwargs.ibmqx_url} ELSE {})
        \cup (IF EnvUrlGiven THEN {environ.IBMQX_URL} ELSE {})

\* an account was active when the construction began
ActiveAtStart == active0.v1 \/ active0.v2
\* an account was active, or one can be loaded from disk
CachedAccount == ActiveAtStart \/ stored_v1 \/ stored_v2

\* positions in calls of the calls of fn
Positions(fn) == {i \in 1..Len(calls) : calls[i][1] = fn}
Count(fn) == Cardinality(Positions(fn))
Called(fn) == Positions(fn) # {}
LastCall == IF calls = <<>> THEN "" ELSE calls[Len(calls)][1]

AccountCalls == {"enable_account", "active_account", "active_accounts",
                 "load_accounts", "load_account"}

\* the provider the constructor is documented to resolve
ResolvedProvider == IF provider # None THEN provider ELSE DefaultProvider

\* ---------------------------------------------------------------- claims

\* C1: in every construction in which a token is supplied (ibmqx_token, or
\* IBMQX_TOKEN set to a value), once the account step is over
\* IBMQ.enable_account has been called exactly once, with a supplied token as
\* its first argument and with url=<a supplied URL> when a URL is supplied;
\* it is the first call made, so it precedes IBMQ.get_provider and the parent
\* constructor.
C1_EnableAccountWithSuppliedToken ==
    (nConstructions > 0 /\ pc # "account" /\ TokenSupplied) =>
        /\ Count("enable_account") = 1
        /\ Positions("enable_account") = {1}
        /\ calls[1][2] \in SuppliedTokens
        /\ (Cardinality(SuppliedTokens) = 1 => SuppliedTokens = {calls[1][2]})
        /\ UrlSupplied =>
              /\ Len(calls[1]) = 4
              /\ calls[1][3] = "url"
              /\ calls[1][4] \in SuppliedUrls
        /\ \A i \in Positions("get_provider") \cup Positions("super().__init__") : i > 1

\* a finished construction with token and URL both supplied by keyword
C1_Witness ==
    /\ Finished
    /\ kwargs.ibmqx_token = "tokB"
    /\ environ.IBMQX_TOKEN = None
    /\ kwargs.ibmqx_url = "urlA"
    /\ environ.IBMQX_URL = None
    /\ provider = None
    /\ calls = << <<"enable_account", "tokB", "url", "urlA">>,
                  <<"get_provider">>, <<"super().__init__">> >>

\* C2: in every construction with no token supplied and no cached account
\* (none active under v1 or v2, load_accounts and load_account both raise
\* IBMQAccountError) the constructor raises IBMQAccountError, with or
\* without a provider argument, and neither IBMQ.get_provider nor the parent
\* constructor is ever called.
C2_NoAccountRaises ==
    (nConstructions > 0 /\ ~TokenSupplied /\ ~CachedAccount) =>
        /\ ~Called("get_provider")
        /\ ~Called("super().__init__")
        /\ superCall = {}
        /\ pc \notin {"get_provider", "super"}
        /\ Finished => /\ outcome = "IBMQAccountError"
                       /\ LastCall = "raise IBMQAccountError"

\* the account error raised although a provider argument was passed
C2_Witness ==
    /\ Finished
    /\ ~TokenSupplied
    /\ ~CachedAccount
    /\ provider = "providerX"
    /\ outcome = "IBMQAccountError"

\* C3: in every construction with no token supplied but a cached account
\* (active under v1 or v2, or loadable by load_accounts or load_account) no
\* account error is raised and the parent constructor is called exactly once,
\* with the resolved provider (the provider argument when passed, otherwise
\* the result of IBMQ.get_provider()) and the caller's wires, backend, shots
\* and keyword arguments.
C3_CachedAccountForwardsProvider ==
    (nConstructions > 0 /\ ~TokenSupplied /\ CachedAccount) =>
        /\ ~Called("raise IBMQAccountError")
        /\ pc # "raise"
        /\ outcome # "IBMQAccountError"
        /\ Finished =>
              /\ outcome = "device"
              /\ Count("super().__init__") = 1
              /\ superCall = {[wires |-> args.wires,
                               provider |-> ResolvedProvider,
                               backend |-> args.backend,
                               shots |-> args.shots,
                               kwargs |-> kwargs]}

\* a device built from a v2 account loaded from disk, default provider
C3_Witness ==
    /\ Finished
    /\ ~TokenSupplied
    /\ ~ActiveAtStart
    /\ ~stored_v1
    /\ stored_v2
    /\ provider = None
    /\ outcome = "device"
    /\ \E c \in superCall : c.provider = DefaultProvider

\* C4: the token given to enable_account is the ibmqx_token keyword argument
\* whenever that argument is provided (here: with a non-empty value), and
\* the IBMQX_TOKEN environment variable only when it is not; with both set
\* to different values enable_account receives the keyword argument's.
C4_KeywordTokenTakesPrecedence ==
    Called("enable_account") =>
        LET sent == calls[1][2]
        IN /\ Truthy(kwargs.ibmqx_token) => sent = kwargs.ibmqx_token
           /\ (~KwTokenGiven /\ EnvTokenGiven) => sent = environ.IBMQX_TOKEN

\* C5: the URL given to enable_account is the ibmqx_url keyword argument when
\* provided (here: with a non-empty value), otherwise the IBMQX_URL environment variable when set, and no
\* url argument at all when neither is available.
C5_KeywordUrlTakesPrecedence ==
    Called("enable_account") =>
        LET call == calls[1]
        IN /\ Truthy(kwargs.ibmqx_url) =>
                 (Len(call) = 4 /\ call[4] = kwargs.ibmqx_url)
           /\ (~KwUrlGiven /\ EnvUrlGiven) =>
                 (Len(call) = 4 /\ call[4] = environ.IBMQX_URL)
           /\ ~UrlSupplied => Len(call) = 2

\* C6: a provider argument that was passed is the provider the parent
\* constructor receives, and IBMQ.get_provider is never called; with no
\* provider argument IBMQ.get_provider() is called exactly once, after every
\* call of the account step and only when that step raised nothing, and its
\* result is the provider the parent constructor receives.
C6_ProviderResolution ==
    nConstructions > 0 =>
        /\ provider # None =>
              /\ ~Called("get_provider")
              /\ \A c \in superCall : c.provider = provider
        /\ provider = None =>
              /\ Count("get_provider") <= 1
              /\ Called("get_provider") =>
                    /\ ~Called("raise IBMQAccountError")
                    /\ \A i \in Positions("get_provider") :
                          \A j \in 1..Len(calls) :
                              calls[j][1] \in AccountCalls => j < i
                    /\ \E j \in 1..Len(calls) : calls[j][1] \in AccountCalls
              /\ \A c \in superCall : c.provider = DefaultProvider
              /\ (Finished /\ outcome = "device") => Count("get_provider") = 1
        /\ (Finished /\ outcome = "device") => superCall # {}

\* a provider passed on the stored-account path is forwarded without asking
\* IBMQ for one
C6_Witness ==
    /\ Finished
    /\ provider = "providerX"
    /\ ~TokenSupplied
    /\ Called("load_accounts")
    /\ ~Called("get_provider")
    /\ \E c \in superCall : c.provider = "providerX"

\* C7: every construction ends in exactly one of two ways, the parent
\* constructor called (a configured device) or the account error raised, and
\* the error is raised exactly when no token is supplied and no cached
\* account exists: with a token, an active account, or a successful
\* load_accounts or load_account the constructor raises nothing and ends in
\* the parent constructor.  The constructor never stops in between.
C7_SingleErrorKind ==
    /\ pc # "idle" => ENABLED Next
    /\ Finished =>
          /\ outcome \in {"device", "IBMQAccountError"}
          /\ outcome = "IBMQAccountError" <=> (~TokenSupplied /\ ~CachedAccount)
          /\ outcome = "device" <=>
                (LastCall = "super().__init__" /\ superCall # {}
                    /\ ~Called("raise IBMQAccountError"))
          /\ outcome = "IBMQAccountError" <=>
                (LastCall = "raise IBMQAccountError" /\ superCall = {}
                    /\ ~Called("super().__init__"))

\* a device obtained only because the second load, load_account, succeeded
C7_Witness ==
    /\ Finished
    /\ ~TokenSupplied
    /\ ~ActiveAtStart
    /\ ~stored_v1
    /\ stored_v2
    /\ outcome = "device"
    /\ Called("load_account")

\* the stored-account fallback, in the order the constructor runs it
FallbackOrder ==
    << <<"load_accounts">>, <<"load_account">>, <<"raise IBMQAccountError">> >>
IsFallbackCall(c) == c \in {FallbackOrder[i] : i \in 1..3}
FallbackCalls == SelectSeq(calls, IsFallbackCall)

\* C8: with no token and no active account the stored-account fallback runs
\* in a fixed order without retry: load_accounts first and at most once,
\* load_account at most once and only after load_accounts raised (never when
\* it returned), the account error only after both raised.
C8_FallbackOrder ==
    /\ \E n \in 0..3 : FallbackCalls = SubSeq(FallbackOrder, 1, n)
    /\ Called("load_account") => ~stored_v1
    /\ Called("raise IBMQAccountError") => (~stored_v1 /\ ~stored_v2)
    /\ (Called("load_accounts") /\ stored_v1 /\ Finished) => Len(FallbackCalls) = 1
    /\ (nConstructions > 0 /\ ~TokenSupplied /\ ~ActiveAtStart
          /\ pc \notin {"account", "load_accounts"}) =>
              Positions("load_accounts") = {3}

\* load_accounts returned: the v2 load and the raise never happen
C8_Witness ==
    /\ Finished
    /\ ~TokenSupplied
    /\ ~ActiveAtStart
    /\ stored_v1
    /\ stored_v2
    /\ FallbackCalls = << <<"load_accounts">> >>
    /\ outcome = "device"

\* C9: with no token and an account already active under either scheme the
\* constructor calls none of load_accounts, load_account, enable_account,
\* leaves the active accounts as they were and goes on to the provider; the
\* stored-account loads are attempted only when both schemes report no
\* active account.
C9_ActiveAccountLeftAlone ==
    /\ (nConstructions > 0 /\ ~TokenSupplied /\ ActiveAtStart) =>
          /\ ~Called("load_accounts")
          /\ ~Called("load_account")
          /\ ~Called("enable_account")
          /\ active_v1 = active0.v1
          /\ active_v2 = active0.v2
          /\ pc \in {"account", "get_provider", "super", "idle"}
          /\ Finished => outcome = "device"
    /\ (Called("load_accounts") \/ Called("load_account")) =>
          (~active0.v1 /\ ~active0.v2)

\* only a v1 account is active: both probes are made, nothing is loaded
C9_Witness ==
    /\ Finished
    /\ ~TokenSupplied
    /\ active0.v1
    /\ ~active0.v2
    /\ stored_v1
    /\ calls[1] = <<"active_account">>
    /\ calls[2] = <<"active_accounts">>
    /\ LastCall = "super().__init__"
    /\ active_v1 /\ ~active_v2

\* C10: over a session every construction with a supplied token calls
\* enable_account once, whether or not an account is already active, and
\* never probes or loads; a construction without a token never calls it; so
\* the number of enable_account calls is the number of token-supplied
\* constructions.
C10_EnableCallsCountTokenConstructions ==
    /\ nEnableCalls + (IF pc = "account" /\ TokenSupplied THEN 1 ELSE 0)
          = nTokenConstructions
    /\ (nConstructions > 0 /\ TokenSupplied) =>
          /\ Count("enable_account") = (IF pc = "account" THEN 0 ELSE 1)
          /\ ~Called("active_account")
          /\ ~Called("active_accounts")
          /\ ~Called("load_accounts")
          /\ ~Called("load_account")
    /\ (nConstructions > 0 /\ ~TokenSupplied) => ~Called("enable_account")

\* the second token construction of a session, begun with the account of the
\* first still active, has called enable_account again
C10_Witness ==
    /\ Finished
    /\ nConstructions = 2
    /\ nTokenConstructions = 2
    /\ TokenSupplied
    /\ active0.v2
    /\ nEnableCalls = 2
    /\ Count("enable_account") = 1

====
